---- MODULE Spec2Model ----
(***************************************************************************)
(* A model of the MCP client of this repository: run_agent (the session    *)
(* start-up loop over mcpServers, the AsyncExitStack that owns every       *)
(* entered transport and session, the query loop with its chat history)    *)
(* and the MessageHistoryStore / InMemoryHistory classes.                  *)
(*                                                                         *)
(* src/client/main_test.py is the version of the client with memory; its   *)
(* start-up loop and exit stack are line for line those of                 *)
(* src/client/main.py.                                                     *)
(***************************************************************************)
EXTENDS Naturals, Integers, Sequences, FiniteSets, TLC

(***************************************************************************)
(* Bounds of the model.                                                    *)
(***************************************************************************)
NumServers == 2          \* entries of config["mcpServers"]
MaxQueries == 2          \* inputs read by the query loop in one run
MaxMessages == 2         \* messages per history in the store specification
MaxSteps == 2            \* reasoning steps followed within one query

Servers == 1..NumServers

\* The tool lists a server may advertise through load_mcp_tools.
AdvertisedLists == {<< >>, <<"convert", "add">>}

Queries == {"q1", "q2"}
Answers == {"a1"}
Messages == {"m1", "m2"}
SessionIds == {"A", "B"}
MainSession == "main"

VARIABLES
    config,        \* mcp_servers: entry -> the tool names its server advertises
    pc,            \* position of run_agent
    idx,           \* the entry the for loop is at
    step,          \* the await of the try block the loop is at
    hung,          \* the current await never completes
    stack,         \* AsyncExitStack: the entered contexts, oldest first
    opened,        \* log: contexts entered successfully, in order
    closed,        \* log: contexts whose exit callback was started, in order
    closeErrs,     \* log: the first context whose exit callback raised, if any
    tools,         \* the list tools: <<name, entry>> in append order
    failed,        \* entries whose try block ended in the except clause
    launched,      \* entries whose stdio_client launch was issued
    awaited,       \* entries whose launch has been awaited
    established,   \* entries whose try block ran to its end
    agent,         \* base_agent exists
    agentTools,    \* the catalog given to create_react_agent
    reads,         \* inputs read so far
    query,         \* the query being processed
    input_data,    \* the input of the current ainvoke
    calls,         \* invocations of the agent so far
    chat_history,  \* the local list chat_history
    cause,         \* why run_agent left the async with block
    steps,         \* reasoning steps the agent has made for the current query
    raised,        \* log: invocations of the agent that raised
    reported,      \* log: errors of a query shown to the user
    histories,     \* MessageHistoryStore.histories: id -> InMemoryHistory
    msgsOf,        \* InMemoryHistory._messages: object -> list object
    lists,         \* the list objects: list -> contents
    lastOp,        \* store specification: the last call made, <<op, id>>
    ret,           \* store specification: what the last call returned
    appended,      \* store specification: per id, messages added since creation or clear
    env,           \* format_env: the mapping of the configuration entry
    environ,       \* the process environment: name -> [set, val]
    text,          \* format_string_with_env: its argument
    processed_env, \* format_env: what it returned
    result         \* format_string_with_env: what it returned

vars == <<config, pc, idx, step, hung, stack, opened, closed, closeErrs, tools,
          failed, launched, awaited, established, agent, agentTools, reads,
          query, input_data, calls, chat_history, cause, steps, raised,
          reported, histories, msgsOf,
          lists, lastOp, ret, appended, env, environ, text, processed_env,
          result>>

agentVars == <<config, pc, idx, step, hung, stack, opened, closed, closeErrs,
               tools, failed, launched, awaited, established, agent,
               agentTools, reads, query, input_data, calls, chat_history,
               cause, steps, raised, reported>>

storeVars == <<histories, msgsOf, lists>>
ghostVars == <<lastOp, ret, appended>>
envVars == <<env, environ, text, processed_env, result>>

Range(s) == {s[i] : i \in 1..Len(s)}

(***************************************************************************)
(* Messages.  A turn is <<role, content>>.                                 *)
(***************************************************************************)
SystemMessage(c) == <<"system", c>>
HumanMessage(c) == <<"user", c>>
AIMessage(c) == <<"assistant", c>>
system_prompt == "prompt"

(***************************************************************************)
(* InMemoryHistory and MessageHistoryStore.  Python objects are            *)
(* references: histories maps an id to an InMemoryHistory object, msgsOf   *)
(* maps an object to the list object its _messages attribute is bound to,  *)
(* lists maps a list object to its contents.  The store operators take     *)
(* and return the record of the three.                                     *)
(***************************************************************************)
AllIds == SessionIds \cup {MainSession}
NoObj == 0
ObjRefs == 1..Cardinality(AllIds)
ListRefs == 1..(Cardinality(AllIds) + 1)

Store == [histories |-> histories, msgsOf |-> msgsOf, lists |-> lists]

EmptyStore == [histories |-> [i \in AllIds |-> NoObj],
               msgsOf |-> [o \in ObjRefs |-> NoObj],
               lists |-> [l \in ListRefs |-> << >>]]

SetStore(st) ==
    /\ histories' = st.histories
    /\ msgsOf' = st.msgsOf
    /\ lists' = st.lists

Min(S) == CHOOSE x \in S : \A y \in S : x <= y

\* A new InMemoryHistory object: one no id is bound to.
NewObject(st) ==
    Min(ObjRefs \ {st.histories[i] : i \in AllIds})

\* A mutable-default list: every history is bound to the same list object.
SharedList(st) == 1

\* The list object the expression [] evaluates to: one no history holds.
NewList(st) ==
    Min(ListRefs \ {st.msgsOf[o] : o \in ObjRefs})

\* A list object no history holds any more is dropped.
Collect(st) ==
    [st EXCEPT !.lists =
        [l \in ListRefs |->
            IF l \in {st.msgsOf[o] : o \in ObjRefs} THEN st.lists[l] ELSE << >>]]

\* InMemoryHistory.__init__: self._messages = []
InMemoryHistory_init(st, o) ==
    LET l == NewList(st)
    IN  [st EXCEPT !.msgsOf[o] = l, !.lists[l] = << >>]

\* InMemoryHistory.add_message: self._messages.append(message)
add_message(st, o, m) ==
    [st EXCEPT !.lists[st.msgsOf[o]] = Append(@, m)]

RECURSIVE add_messages(_, _, _)
\* BaseChatMessageHistory.add_messages: add_message for each, in order.
add_messages(st, o, ms) ==
    IF ms = << >> THEN st
    ELSE add_messages(add_message(st, o, Head(ms)), o, Tail(ms))

\* InMemoryHistory.clear: self._messages = []
clear(st, o) ==
    LET l == NewList(st)
    IN  Collect([st EXCEPT !.msgsOf[o] = l, !.lists[l] = << >>])

\* InMemoryHistory.messages (the property): the list _messages is bound to.
messages(st, o) == st.lists[st.msgsOf[o]]

\* MessageHistoryStore.get_session_history: the store after the call; the
\* object returned is the one the id is bound to afterwards.
get_session_history(st, id) ==
    IF st.histories[id] = NoObj
    THEN LET o == NewObject(st)
         IN  InMemoryHistory_init([st EXCEPT !.histories[id] = o], o)
    ELSE st

(***************************************************************************)
(* The store on its own: any interleaving of get_session_history,          *)
(* add_message and clear over the ids of SessionIds.                       *)
(***************************************************************************)
NoAppended == [i \in AllIds |-> << >>]

StoreGet(id) ==
    /\ pc = "store"
    /\ LET st == get_session_history(Store, id)
       IN  /\ SetStore(st)
           /\ ret' = st.histories[id]
    /\ lastOp' = <<"get", id>>
    /\ appended' = IF histories[id] = NoObj
                   THEN [appended EXCEPT ![id] = << >>]
                   ELSE appended
    /\ UNCHANGED agentVars
    /\ UNCHANGED envVars

StoreAdd(id, m) ==
    /\ pc = "store"
    /\ histories[id] # NoObj
    /\ Len(appended[id]) < MaxMessages
    /\ SetStore(add_message(Store, histories[id], m))
    /\ lastOp' = <<"add", id>>
    /\ ret' = NoObj
    /\ appended' = [appended EXCEPT ![id] = Append(@, m)]
    /\ UNCHANGED agentVars
    /\ UNCHANGED envVars

StoreClear(id) ==
    /\ pc = "store"
    /\ histories[id] # NoObj
    /\ SetStore(clear(Store, histories[id]))
    /\ lastOp' = <<"clear", id>>
    /\ ret' = NoObj
    /\ appended' = [appended EXCEPT ![id] = << >>]
    /\ UNCHANGED agentVars
    /\ UNCHANGED envVars

(***************************************************************************)
(* format_env and format_string_with_env.  A string is the sequence of its *)
(* pieces: "${{" and "}}" are one piece each, a word character (\w) is a   *)
(* piece, ":" is a character that is not a word character.                 *)
(***************************************************************************)
WordChars == {"A", "B", "v", "w"}

\* The strings a configuration may hold as a value or a prompt.
Strings ==
    {<< >>,
     <<"v">>,
     <<"${{", "A", "}}">>,
     <<"${{", "B", "}}">>,
     <<":", "${{", "A", "}}">>,
     <<"${{", "A", "}}", ":", "${{", "B", "}}">>}

EnvKeys == {"K1", "K2"}

\* The environment variables the strings name, each unset or set.
EnvNames == {<<"A">>, <<"B">>}
Unset == [set |-> FALSE, val |-> << >>]
IsSet(v) == [set |-> TRUE, val |-> v]

\* os.getenv(name): None (Unset) when the variable is not set.
getenv(name) == IF name \in EnvNames THEN environ[name] ELSE Unset

\* os.getenv(name, ""): the value, "" when the variable is not set.
getenv_default(name) == IF getenv(name).set THEN getenv(name).val ELSE << >>

\* value.startswith("${{") and value.endswith("}}")
LooksLikePlaceholder(value) ==
    /\ Len(value) >= 2
    /\ value[1] = "${{"
    /\ value[Len(value)] = "}}"

\* format_env: the mapping it returns; the argument is copied, never
\* assigned to.
format_env(e) ==
    IF DOMAIN e = {} THEN e
    ELSE [key \in DOMAIN e |->
            LET value == e[key]
                env_var_name == SubSeq(value, 2, Len(value) - 1)
                env_var_value == getenv(env_var_name)
            IN  IF LooksLikePlaceholder(value)
                THEN IF ~env_var_value.set THEN << >> ELSE env_var_value.val
                ELSE value]

\* The end of the match of \$\{\{(\w+)\}\} that starts at position i of t,
\* 0 when there is none.
MatchEnd(t, i) ==
    IF i > Len(t) \/ t[i] # "${{" THEN 0
    ELSE LET ends == {j \in (i + 2)..Len(t) :
                         /\ t[j] = "}}"
                         /\ \A k \in (i + 1)..(j - 1) : t[k] \in WordChars}
         IN  IF ends = {} THEN 0 ELSE Min(ends)

RECURSIVE findall(_, _)
\* re.findall(r'\$\{\{(\w+)\}\}', text) from position i on: the names.
findall(t, i) ==
    IF i > Len(t) THEN << >>
    ELSE LET j == MatchEnd(t, i)
         IN  IF j = 0 THEN findall(t, i + 1)
             ELSE <<SubSeq(t, i + 1, j - 1)>> \o findall(t, j + 1)

RECURSIVE str_replace(_, _, _, _)
\* str.replace(old, new) from position i on.
str_replace(t, old, new, i) ==
    IF i > Len(t) THEN << >>
    ELSE IF i + Len(old) - 1 <= Len(t) /\ SubSeq(t, i, i + Len(old) - 1) = old
         THEN new \o str_replace(t, old, new, i + Len(old))
         ELSE <<t[i]>> \o str_replace(t, old, new, i + 1)

RECURSIVE replace_each(_, _)
\* The for loop over matches: each name's placeholder is replaced in result.
replace_each(res, matches) ==
    IF matches = << >> THEN res
    ELSE LET env_var_name == Head(matches)
             placeholder == <<"${{">> \o env_var_name \o <<"}}">>
         IN  replace_each(
                 str_replace(res, placeholder, getenv_default(env_var_name), 1),
                 Tail(matches))

\* format_string_with_env
format_string_with_env(t) == replace_each(t, findall(t, 1))

\* Nothing is being formatted.
InitEnvIdle ==
    /\ env = << >>
    /\ environ = [n \in EnvNames |-> Unset]
    /\ text = << >>
    /\ processed_env = << >>
    /\ result = << >>

\* The locals of run_agent before the async with block is entered.
InitLocals ==
    /\ idx = 1
    /\ step = "stdio"
    /\ hung = FALSE
    /\ stack = << >>
    /\ opened = << >>
    /\ closed = << >>
    /\ closeErrs = << >>
    /\ tools = << >>
    /\ failed = {}
    /\ launched = {}
    /\ awaited = {}
    /\ established = {}
    /\ agent = FALSE
    /\ agentTools = << >>
    /\ reads = 0
    /\ query = ""
    /\ input_data = [messages |-> << >>, chat_history |-> << >>]
    /\ calls = 0
    /\ chat_history = << >>
    /\ cause = "none"
    /\ steps = 0
    /\ raised = 0
    /\ reported = 0

InitStoreVars ==
    /\ histories = EmptyStore.histories
    /\ msgsOf = EmptyStore.msgsOf
    /\ lists = EmptyStore.lists
    /\ lastOp = <<"none", "none">>
    /\ ret = NoObj
    /\ appended = NoAppended

(***************************************************************************)
(* The two formatting functions on their own: format_env on a mapping of   *)
(* the configuration, then format_string_with_env on a string, under a     *)
(* process environment.                                                    *)
(***************************************************************************)
EnvMappings ==
    UNION {[keys -> Strings] : keys \in SUBSET EnvKeys}

Environments ==
    {e \in [EnvNames -> {Unset, IsSet(<< >>), IsSet(<<"v">>), IsSet(<<"w">>)}] :
        e[<<"B">>] \in {Unset, IsSet(<<"w">>)}}

InitEnv ==
    /\ pc = "format_env"
    /\ config = [k \in Servers |-> << >>]
    /\ InitLocals
    /\ InitStoreVars
    /\ env \in EnvMappings
    /\ environ \in Environments
    /\ text \in Strings
    /\ processed_env = << >>
    /\ result = << >>

\* env_vars = format_env(server_info.get("env", {}))
CallFormatEnv ==
    /\ pc = "format_env"
    /\ processed_env' = format_env(env)
    /\ pc' = "format_string"
    /\ UNCHANGED <<env, environ, text, result>>
    /\ UNCHANGED <<config, idx, step, hung, stack, opened, closed, closeErrs,
                   tools, failed, launched, awaited, established, cause>>
    /\ UNCHANGED <<agent, agentTools, reads, query, input_data, steps, raised,
                   reported, calls, chat_history>>
    /\ UNCHANGED storeVars /\ UNCHANGED ghostVars

\* system_prompt = format_string_with_env(system_prompt)
CallFormatString ==
    /\ pc = "format_string"
    /\ result' = format_string_with_env(text)
    /\ pc' = "formatted"
    /\ UNCHANGED <<env, environ, text, processed_env>>
    /\ UNCHANGED <<config, idx, step, hung, stack, opened, closed, closeErrs,
                   tools, failed, launched, awaited, established, cause>>
    /\ UNCHANGED <<agent, agentTools, reads, query, input_data, steps, raised,
                   reported, calls, chat_history>>
    /\ UNCHANGED storeVars /\ UNCHANGED ghostVars

NextEnv ==
    \/ CallFormatEnv
    \/ CallFormatString

SpecEnv == InitEnv /\ [][NextEnv]_vars

\* The value is one placeholder: "${{", a name of word characters, "}}".
IsPlaceholder(value) ==
    /\ Len(value) >= 3
    /\ MatchEnd(value, 1) = Len(value)

PlaceholderName(value) == SubSeq(value, 2, Len(value) - 1)

\* C14 (as claimed): format_env returns a mapping with the keys of its
\* argument in which a value that is a ${{NAME}} placeholder has become the
\* value of the environment variable NAME, or the empty string when NAME
\* is not set, and every other value is unchanged; format_string_with_env
\* does the same to a string that is a placeholder and leaves a string
\* without placeholder unchanged.
C14_EnvSubstitution ==
    /\ pc \in {"format_string", "formatted"} =>
          /\ DOMAIN processed_env = DOMAIN env
          /\ \A key \in DOMAIN env :
                IF IsPlaceholder(env[key])
                THEN processed_env[key] = getenv_default(PlaceholderName(env[key]))
                ELSE processed_env[key] = env[key]
    /\ pc = "formatted" =>
          /\ IsPlaceholder(text) =>
                result = getenv_default(PlaceholderName(text))
          /\ findall(text, 1) = << >> => result = text

InitStore ==
    /\ pc = "store"
    /\ config = [k \in Servers |-> << >>]
    /\ InitLocals
    /\ InitStoreVars
    /\ InitEnvIdle

NextStore ==
    \/ \E id \in SessionIds : StoreGet(id)
    \/ \E id \in SessionIds, m \in Messages : StoreAdd(id, m)
    \/ \E id \in SessionIds : StoreClear(id)

SpecStore == InitStore /\ [][NextStore]_vars

\* What a caller observes through the history of an id.
View(id) ==
    IF histories[id] = NoObj THEN <<"absent", << >> >>
    ELSE <<"present", messages(Store, histories[id])>>

\* What holds of the store between calls.
C8_StoreState ==
    /\ \A id \in SessionIds :
          histories[id] # NoObj =>
              messages(Store, histories[id]) = appended[id]
    /\ lastOp[1] = "get" => ret = histories[lastOp[2]] /\ ret # NoObj

\* What one call does to the store.
C8_StoreStep ==
    /\ \A b \in SessionIds : lastOp'[2] # b => View(b)' = View(b)
    /\ \A a \in SessionIds :
          histories[a] # NoObj => histories'[a] = histories[a]
    /\ \A a \in SessionIds :
          (lastOp' = <<"get", a>> /\ histories[a] = NoObj) =>
              View(a)' = <<"present", << >> >>
    /\ \A a \in SessionIds :
          (lastOp' = <<"get", a>> /\ histories[a] # NoObj) =>
              View(a)' = View(a)

(***************************************************************************)
(* C8: histories of distinct session ids are independent.  A call made on  *)
(* one id (get_session_history, add_message or clear) leaves what is       *)
(* observed through every other id unchanged; get_session_history returns  *)
(* the object the id is bound to, which is empty on first access and never *)
(* replaced by a later access; and what is observed through an id is       *)
(* exactly the messages added to it since its creation or last clear, in   *)
(* insertion order.                                                        *)
(***************************************************************************)
C8_HistoriesIndependent == [](C8_StoreState) /\ [][C8_StoreStep]_vars

\* Both ids hold messages, B was just appended to, and A was accessed,
\* appended to and cleared along the way.
C8_Witness ==
    /\ pc = "store"
    /\ lastOp = <<"add", "B">>
    /\ View("A") = <<"present", <<"m1">> >>
    /\ View("B") = <<"present", <<"m2", "m1">> >>
    /\ msgsOf[histories["A"]] # 1

(***************************************************************************)
(* run_agent: session start-up.                                            *)
(***************************************************************************)
\* What the awaits of the try block raise when they fail.
StepError(st) ==
    CASE st = "stdio" -> "LaunchError"
      [] st = "session" -> "SessionError"
      [] st = "init" -> "HandshakeError"
      [] st = "load" -> "ToolLoadError"

ConnectErrors == {"LaunchError", "SessionError", "HandshakeError", "ToolLoadError"}

\* An except clause that names one error type only.
ExceptLaunchErrorOnly(e) == e = "LaunchError"

\* `except Exception as e`: every failure of the try block is an Exception;
\* a KeyboardInterrupt is not.
ExceptException(e) == e \in ConnectErrors \cup {"ReasoningError"}

\* A context entered by hand is not registered on the stack.
enter_unregistered(stk, r) == stk

\* stack.enter_async_context(cm), cm.__aenter__ having succeeded: the
\* context's exit is pushed on the stack.
enter_async_context(stk, r) == Append(stk, r)

\* Every tool is bound to the session of the first entry.
load_bound_to_first(k) == [i \in 1..Len(config[k]) |-> <<config[k][i], 1>>]

\* The tools of entry k as load_mcp_tools returns them.
load_mcp_tools(k) == [i \in 1..Len(config[k]) |-> <<config[k][i], k>>]

\* The for loop moves on to the next entry, or ends.
NextEntry ==
    /\ idx' = idx + 1
    /\ step' = "stdio"
    /\ pc' = IF idx + 1 > NumServers THEN "check" ELSE "connect"

\* Issuing stdio_client's launch and awaiting it are one expression.
Issue ==
    /\ launched' = IF step = "stdio" THEN launched \cup {idx} ELSE launched
    /\ awaited' = IF step = "stdio" THEN awaited \cup {idx} ELSE awaited

Connecting == pc = "connect" /\ ~hung

UNCHANGED_query == UNCHANGED <<agent, agentTools, reads, query, input_data,
                               steps, raised, reported, env, environ, text,
                               processed_env, result,
                               calls, chat_history, histories, msgsOf, lists,
                               lastOp, ret, appended>>

\* read, write = await stack.enter_async_context(stdio_client(server_params))
EnterStdio ==
    /\ Connecting /\ step = "stdio"
    /\ Issue
    /\ stack' = enter_async_context(stack, <<idx, "stdio">>)
    /\ opened' = Append(opened, <<idx, "stdio">>)
    /\ step' = "session"
    /\ UNCHANGED <<config, pc, idx, hung, closed, closeErrs, tools, failed,
                   established, cause>>
    /\ UNCHANGED_query

\* session = await stack.enter_async_context(ClientSession(read, write))
EnterSession ==
    /\ Connecting /\ step = "session"
    /\ stack' = enter_async_context(stack, <<idx, "session">>)
    /\ opened' = Append(opened, <<idx, "session">>)
    /\ step' = "init"
    /\ UNCHANGED <<config, pc, idx, hung, closed, closeErrs, tools, failed,
                   launched, awaited, established, cause>>
    /\ UNCHANGED_query

\* await session.initialize()
Initialize ==
    /\ Connecting /\ step = "init"
    /\ step' = "load"
    /\ UNCHANGED <<config, pc, idx, hung, stack, opened, closed, closeErrs,
                   tools, failed, launched, awaited, established, cause>>
    /\ UNCHANGED_query

\* server_tools = await load_mcp_tools(session); the for loop appending them
LoadTools ==
    /\ Connecting /\ step = "load"
    /\ tools' = tools \o load_mcp_tools(idx)
    /\ established' = established \cup {idx}
    /\ NextEntry
    /\ UNCHANGED <<config, hung, stack, opened, closed, closeErrs, failed,
                   launched, awaited, cause>>
    /\ UNCHANGED_query

\* An await of the try block raises: the except clause logs it and the loop
\* goes on; an error the clause does not catch leaves the async with block.
ConnectFailure ==
    /\ Connecting
    /\ Issue
    /\ failed' = failed \cup {idx}
    /\ IF ExceptException(StepError(step))
       THEN NextEntry /\ cause' = cause
       ELSE pc' = "closing" /\ cause' = StepError(step) /\ UNCHANGED <<idx, step>>
    /\ UNCHANGED <<config, hung, stack, opened, closed, closeErrs, tools,
                   established>>
    /\ UNCHANGED_query

\* The launch or the handshake of the entry never completes: the await does
\* not return.
ConnectHang ==
    /\ Connecting /\ step \in {"stdio", "init"}
    /\ Issue
    /\ hung' = TRUE
    /\ UNCHANGED <<config, pc, idx, step, stack, opened, closed, closeErrs,
                   tools, failed, established, cause>>
    /\ UNCHANGED_query

\* The check is left out.
NeverEmpty(t) == FALSE

\* `if not tools`
NoTools(t) == t = << >>

\* if not tools: log "No tools loaded from any server. Exiting."; return
NoToolsReturn ==
    /\ pc = "check"
    /\ NoTools(tools)
    /\ pc' = "closing"
    /\ cause' = "no_tools"
    /\ UNCHANGED <<config, idx, step, hung, stack, opened, closed, closeErrs,
                   tools, failed, launched, awaited, established>>
    /\ UNCHANGED_query

\* base_agent = create_react_agent(llm, tools); the store; the wrapper
CreateAgent ==
    /\ pc = "check"
    /\ ~NoTools(tools)
    /\ agent' = TRUE
    /\ agentTools' = tools
    /\ pc' = "prompt"
    /\ UNCHANGED <<config, idx, step, hung, stack, opened, closed, closeErrs,
                   tools, failed, launched, awaited, established, cause,
                   reads, query, input_data, calls, chat_history, histories,
                   msgsOf, lists, lastOp, ret, appended, steps, raised,
                   reported, env, environ, text, processed_env, result>>

(***************************************************************************)
(* run_agent: the query loop.                                              *)
(***************************************************************************)
UNCHANGED_pool == UNCHANGED <<config, idx, step, hung, stack, opened, closed,
                              closeErrs, tools, failed, launched, awaited,
                              established, agent, agentTools, env, environ,
                              text, processed_env, result>>

UNCHANGED_store == UNCHANGED <<histories, msgsOf, lists, lastOp, ret, appended>>

\* What the wrapped agent is invoked with for a query.
InputData(q) ==
    [messages |-> <<SystemMessage(system_prompt), HumanMessage(q)>>,
     chat_history |-> chat_history]

\* The messages the prebuilt agent starts from: the graph's state has the
\* key "messages"; no node of it reads the key "chat_history".
PromptContext(inp) == inp.messages

\* The list is rebound to the new pair.
ReplaceTurns(h, q, a) == <<HumanMessage(q), AIMessage(a)>>

\* chat_history.append(HumanMessage(...)); chat_history.append(AIMessage(...))
AppendTurns(h, q, a) == Append(Append(h, HumanMessage(q)), AIMessage(a))

\* What RunnableWithMessageHistory adds to the history of the session when
\* the invocation ends: the input messages, then the agent's output
\* messages (the messages of the graph's final state, which begin with the
\* input messages and end with the answer).
SavedByWrapper(inp, a) ==
    inp.messages \o (PromptContext(inp) \o <<AIMessage(a)>>)

\* What the user may type: a text with or without white space around it.
Texts == Queries \cup {"quit", "QUIT", "clear memory", "Clear Memory"}
RawInputs == [lead : BOOLEAN, text : Texts, trail : BOOLEAN]

\* str.strip(): the white space around the text is dropped.
strip(raw) == raw.text

\* str.lower()
lower(t) ==
    CASE t = "QUIT" -> "quit"
      [] t = "Clear Memory" -> "clear memory"
      [] OTHER -> t

\* The comparison is made without lower().
EqualsCommand(q, c) == q = c

\* query.lower() == "quit", query.lower() == "clear memory"
IsCommand(q, c) == lower(q) = c

\* query = input(...).strip(); "quit": break
ReadQuit(raw) ==
    /\ pc = "prompt"
    /\ IsCommand(strip(raw), "quit")
    /\ reads' = reads + 1
    /\ pc' = "closing"
    /\ cause' = "quit"
    /\ UNCHANGED <<query, input_data, calls, chat_history, steps, raised, reported>>
    /\ UNCHANGED_pool /\ UNCHANGED_store

\* input() raises EOFError at end of input; it is outside the try block
ReadEndOfInput ==
    /\ pc = "prompt"
    /\ pc' = "closing"
    /\ cause' = "EOFError"
    /\ UNCHANGED <<reads, query, input_data, calls, chat_history, steps, raised,
                   reported>>
    /\ UNCHANGED_pool /\ UNCHANGED_store

\* "clear memory": chat_history = []; the store's history is cleared
ReadClearMemory(raw) ==
    /\ pc = "prompt"
    /\ ~IsCommand(strip(raw), "quit")
    /\ IsCommand(strip(raw), "clear memory")
    /\ reads < MaxQueries
    /\ reads' = reads + 1
    /\ chat_history' = << >>
    /\ LET st == get_session_history(Store, MainSession)
       IN  SetStore(clear(st, st.histories[MainSession]))
    /\ UNCHANGED <<pc, query, input_data, calls, cause, lastOp, ret, appended,
                   steps, raised, reported>>
    /\ UNCHANGED_pool

\* Any other input is a query: input_data is built and the wrapped agent is
\* invoked; the wrapper fetches the history of session_id from the store.
ReadQuery(raw) ==
    /\ pc = "prompt"
    /\ ~IsCommand(strip(raw), "quit")
    /\ ~IsCommand(strip(raw), "clear memory")
    /\ reads < MaxQueries
    /\ reads' = reads + 1
    /\ query' = strip(raw)
    /\ input_data' = InputData(strip(raw))
    /\ calls' = calls + 1
    /\ SetStore(get_session_history(Store, MainSession))
    /\ pc' = "invoking"
    /\ steps' = 1
    /\ UNCHANGED <<chat_history, cause, lastOp, ret, appended, raised, reported>>
    /\ UNCHANGED_pool

\* ainvoke returns: the wrapper saves the turn in the store, the answer is
\* the content of the last message, the two turns are appended.
AgentAnswers(a) ==
    /\ pc = "invoking"
    /\ SetStore(add_messages(Store, histories[MainSession],
                              SavedByWrapper(input_data, a)))
    /\ chat_history' = AppendTurns(chat_history, query, a)
    /\ pc' = "prompt"
    /\ steps' = 0
    /\ UNCHANGED <<reads, query, input_data, calls, cause, lastOp, ret, appended,
                   raised, reported>>
    /\ UNCHANGED_pool

\* The configuration ainvoke is called with: the session id and nothing
\* else; run_agent takes no budget and hands none on.
InvokeConfig == [session_id |-> MainSession]

\* The agent makes another reasoning step (a tool round-trip) for the
\* query.  Nothing of run_agent limits the steps; the model follows them up
\* to MaxSteps.
AgentStep ==
    /\ pc = "invoking"
    /\ steps < MaxSteps
    /\ steps' = steps + 1
    /\ UNCHANGED <<pc, reads, query, input_data, calls, chat_history, cause,
                   raised, reported>>
    /\ UNCHANGED_pool /\ UNCHANGED_store

\* The handler says nothing.
Swallow(n) == n

\* logger.error("Error processing query: ..."); print(f"Error: {e}")
ReportError(n) == n + 1

\* ainvoke raises: `except Exception` logs and prints the error; the loop
\* goes on.
AgentRaises ==
    /\ pc = "invoking"
    /\ raised' = raised + 1
    /\ steps' = 0
    /\ IF ExceptException("ReasoningError")
       THEN pc' = "prompt" /\ cause' = cause /\ reported' = ReportError(reported)
       ELSE pc' = "closing" /\ cause' = "ReasoningError" /\ reported' = reported
    /\ UNCHANGED <<reads, query, input_data, calls, chat_history>>
    /\ UNCHANGED_pool /\ UNCHANGED_store

\* A KeyboardInterrupt while run_agent is inside the async with block: no
\* except clause of run_agent catches it.
Interrupt ==
    /\ pc \in {"connect", "prompt", "invoking"}
    /\ pc' = "closing"
    /\ cause' = "KeyboardInterrupt"
    /\ steps' = 0
    /\ UNCHANGED <<reads, query, input_data, calls, chat_history, raised, reported>>
    /\ UNCHANGED_pool /\ UNCHANGED_store

(***************************************************************************)
(* Leaving `async with AsyncExitStack() as stack`: __aexit__ runs the      *)
(* exit callbacks one at a time until none is left; a callback that raises *)
(* replaces the pending exception and the unwinding goes on.               *)
(***************************************************************************)
\* First in, first out.
OldestCallback(stk) == 1

\* The callback __aexit__ pops next: the one pushed last.
PopCallback(stk) == Len(stk)

RemoveAt(stk, i) == SubSeq(stk, 1, i - 1) \o SubSeq(stk, i + 1, Len(stk))

\* The callbacks left on the stack after one of them raised.
AfterCloseRaised(stk, i) == RemoveAt(stk, i)

CloseContext ==
    /\ pc = "closing"
    /\ stack # << >>
    /\ LET i == PopCallback(stack)
       IN  /\ closed' = Append(closed, stack[i])
           /\ stack' = RemoveAt(stack, i)
    /\ UNCHANGED <<config, pc, idx, step, hung, opened, closeErrs, tools,
                   failed, launched, awaited, established, cause>>
    /\ UNCHANGED_query

CloseContextRaises ==
    /\ pc = "closing"
    /\ stack # << >>
    /\ LET i == PopCallback(stack)
       IN  /\ closed' = Append(closed, stack[i])
           /\ closeErrs' = IF closeErrs = << >> THEN <<stack[i]>> ELSE closeErrs
           /\ stack' = AfterCloseRaised(stack, i)
    /\ UNCHANGED <<config, pc, idx, step, hung, opened, tools, failed,
                   launched, awaited, established, cause>>
    /\ UNCHANGED_query

\* __aexit__ returns or re-raises: run_agent is over.
ExitStackDone ==
    /\ pc = "closing"
    /\ stack = << >>
    /\ pc' = "done"
    /\ UNCHANGED <<config, idx, step, hung, stack, opened, closed, closeErrs,
                   tools, failed, launched, awaited, established, cause>>
    /\ UNCHANGED_query

Init ==
    /\ pc = "connect"
    /\ config \in [Servers -> AdvertisedLists]
    /\ InitLocals
    /\ InitStoreVars
    /\ InitEnvIdle

Next ==
    \/ EnterStdio
    \/ EnterSession
    \/ Initialize
    \/ LoadTools
    \/ ConnectFailure
    \/ ConnectHang
    \/ NoToolsReturn
    \/ CreateAgent
    \/ \E raw \in RawInputs : ReadQuit(raw)
    \/ ReadEndOfInput
    \/ \E raw \in RawInputs : ReadClearMemory(raw)
    \/ \E raw \in RawInputs : ReadQuery(raw)
    \/ \E a \in Answers : AgentAnswers(a)
    \/ AgentStep
    \/ AgentRaises
    \/ Interrupt
    \/ CloseContext
    \/ CloseContextRaises
    \/ ExitStackDone

Spec == Init /\ [][Next]_vars

(***************************************************************************)
(* Properties of run_agent.                                                *)
(***************************************************************************)
\* Every tool entry k advertises is in the list t, bound to k.
HasToolsOf(t, k) ==
    \A i \in 1..Len(config[k]) : <<config[k][i], k>> \in Range(t)

IsPrefix(s, t) == Len(s) <= Len(t) /\ SubSeq(t, 1, Len(s)) = s

Reverse(s) == [i \in 1..Len(s) |-> s[Len(s) - i + 1]]

\* The loop over mcpServers has gone through every entry.
LoopFinished == idx > NumServers

\* C1: failure isolation in session start-up.  Whatever entries fail to
\* launch, initialize or load their tools, every entry the loop has passed
\* that did not fail has its session established and all its tools in the
\* list (later failures remove nothing); no failure ends the run, so unless
\* the user interrupts it every entry is attempted; and the catalog given
\* to the agent holds the tools of every entry that did not fail.
C1_FailureIsolation ==
    /\ \A k \in Servers :
          (k < idx /\ k \notin failed) =>
              k \in established /\ HasToolsOf(tools, k)
    /\ cause \notin ConnectErrors
    /\ (pc \notin {"connect"} /\ cause # "KeyboardInterrupt") =>
          LoopFinished /\ launched = Servers
    /\ agent => \A k \in Servers \ failed : HasToolsOf(agentTools, k)

\* Entry 1 failed after its transport was entered, the last entry was still
\* established and its tools are in the agent's catalog.
C1_Witness ==
    /\ pc = "prompt"
    /\ 1 \in failed
    /\ <<1, "stdio">> \in Range(opened)
    /\ NumServers \in established
    /\ agentTools = load_mcp_tools(NumServers)
    /\ agentTools # << >>

\* C2: on every exit path of run_agent, when the run is over the exit of
\* every context that was entered has been started exactly once: as many
\* closes as opens, and nothing is ever closed twice or closed without
\* having been opened.
C2_CloseEqualsOpen ==
    /\ \A i, j \in 1..Len(closed) : i # j => closed[i] # closed[j]
    /\ Range(closed) \subseteq Range(opened)
    /\ pc = "done" =>
          /\ Len(closed) = Len(opened)
          /\ \A r \in Range(opened) :
                Cardinality({i \in 1..Len(closed) : closed[i] = r}) = 1

\* The run ended at end of input with one entry failed after its transport
\* was entered and another established; all three contexts were closed.
C2_Witness ==
    /\ pc = "done"
    /\ cause = "EOFError"
    /\ Len(opened) = 3
    /\ failed # {}
    /\ Len(closed) = 3

\* C3: the contexts are released in reverse order of their establishment,
\* and a close that raises does not stop the unwinding: every context
\* opened earlier is still closed.
C3_LifoClose ==
    /\ closed = SubSeq(Reverse(opened), 1, Len(closed))
    /\ (pc = "done" /\ closeErrs # << >>) =>
          Range(opened) \subseteq Range(closed)

\* The close of the context opened last raised; the three opened before it
\* were closed after it, newest first.
C3_Witness ==
    /\ pc = "done"
    /\ Len(opened) = 4
    /\ closeErrs = <<opened[4]>>
    /\ closed = <<opened[4], opened[3], opened[2], opened[1]>>

\* C4 (as claimed): the catalog given to the agent never holds two entries
\* with the same tool name.
C4_NoDuplicateNames ==
    agent =>
        \A i, j \in 1..Len(agentTools) :
            i # j => agentTools[i][1] # agentTools[j][1]

\* C6 (as claimed): for a query made when the history is not empty, the
\* messages the agent starts from end with the whole chat history followed
\* by the new user turn.
C6_HistoryReachesAgent ==
    (pc = "invoking" /\ chat_history # << >>) =>
        LET p == PromptContext(input_data)
            want == Append(chat_history, HumanMessage(query))
        IN  /\ Len(p) >= Len(want)
            /\ SubSeq(p, Len(p) - Len(want) + 1, Len(p)) = want

\* The messages of the store's history for the session of run_agent.
MainHistory == View(MainSession)[2]

\* What one step of run_agent may do to chat_history and to the store's
\* history of the session.
C7_Step ==
    /\ \/ chat_history' = chat_history
       \/ /\ pc = "prompt" /\ pc' = "prompt"
          /\ chat_history' = << >> /\ MainHistory' = << >>
       \/ /\ pc = "invoking" /\ pc' = "prompt"
          /\ \E a \in Answers :
                chat_history' = chat_history \o <<HumanMessage(query), AIMessage(a)>>
    /\ \/ IsPrefix(MainHistory, MainHistory')
       \/ pc = "prompt" /\ pc' = "prompt" /\ MainHistory' = << >>
    /\ (pc = "invoking" /\ pc' = "prompt") =>
          (MainHistory' = MainHistory <=> chat_history' = chat_history)
    /\ (pc = "invoking" /\ MainHistory' # MainHistory) =>
          Len(chat_history') = Len(chat_history) + 2
    /\ pc' \in {"closing", "done"} =>
          chat_history' = chat_history /\ MainHistory' = MainHistory

C9_NoServersNoLoop ==
    (LoopFinished /\ established = {}) =>
        /\ ~agent
        /\ reads = 0
        /\ calls = 0
        /\ pc \in {"check", "closing", "done"}
        /\ pc # "check" => cause = "no_tools"

\* Every entry was attempted and failed; the run is over.
C9_Witness ==
    /\ pc = "done"
    /\ failed = Servers
    /\ launched = Servers
    /\ established = {}
    /\ cause = "no_tools"

\* C10 (as claimed): the launches of all entries are issued before any of
\* them is waited for.
C10_AllIssuedBeforeAwait ==
    awaited # {} => launched = Servers

\* The budgets a caller might want to impose on one query.
Budgets == 1..MaxSteps

\* C11 (as claimed): whatever budget B the caller supplies, one query makes
\* at most B reasoning steps.
C11_BudgetRespected ==
    \A B \in Budgets : pc = "invoking" => steps <= B

\* C12: when the invocation of the agent raises, the error is shown to the
\* user (every raise is reported, none is lost) and the run returns to the
\* prompt or ends; on return to the prompt the contexts on the stack, the
\* tool list and the agent's catalog are what they were, nothing has been
\* closed, and the loop reads on.
C12_Step ==
    raised' # raised =>
        /\ reported' = reported + 1
        /\ pc' \in {"prompt", "closing"}
        /\ pc' = "prompt" =>
              /\ stack' = stack /\ stack' = opened /\ closed' = << >>
              /\ tools' = tools /\ agentTools' = agentTools /\ agent'
              /\ chat_history' = chat_history
              /\ cause' = "none"

C12_ReasoningErrorReported == [](reported = raised) /\ [][C12_Step]_vars

\* A query failed and was reported; the next query was read and answered
\* with every context still open.
C12_Witness ==
    /\ pc = "prompt"
    /\ raised = 1 /\ reported = 1
    /\ reads = 2
    /\ chat_history = <<HumanMessage("q2"), AIMessage("a1")>>
    /\ stack = opened /\ stack # << >>

\* The entries with a context on the exit stack.
OpenEntries == {stack[i][1] : i \in 1..Len(stack)}

\* C15 (as claimed): while queries are processed, the entries that hold an
\* open context are exactly the entries whose set-up succeeded.
C15_OpenEqualsContributing ==
    pc \in {"prompt", "invoking"} => OpenEntries = established

\* The complete tool list entry k advertises, each tool bound to k.
ToolsOf(k) == [i \in 1..Len(config[k]) |-> <<config[k][i], k>>]

RECURSIVE Catalog(_)
\* The tool lists of the established entries among 1..n, in configuration
\* order.
Catalog(n) ==
    IF n = 0 THEN << >>
    ELSE Catalog(n - 1) \o (IF n \in established THEN ToolsOf(n) ELSE << >>)

\* What holds of the tool list and the catalog in every state.
C16_State ==
    /\ tools = Catalog(NumServers)
    /\ agent =>
          /\ agentTools = Catalog(NumServers)
          /\ \A i \in 1..Len(agentTools) :
                /\ agentTools[i][2] \in established
                /\ agentTools[i][2] \notin failed

\* Once the agent exists its catalog and the tool list stay as they are.
C16_Step ==
    agent => agent' /\ agentTools' = agentTools /\ tools' = tools

\* C16: the catalog given to the agent is the concatenation, in
\* configuration order, of the complete tool lists of the entries whose
\* launch, initialize and tool load all succeeded; an entry that failed
\* contributes no tool, so no tool of the catalog belongs to a failed
\* entry; and the catalog does not change once the agent exists.
C16_CatalogIsConcatenation == [](C16_State) /\ [][C16_Step]_vars

\* Entry 1 is established, the last entry failed after its session was
\* entered, and a query is being processed with the tools of entry 1 only.
C16_Witness ==
    /\ pc = "invoking"
    /\ 1 \in established
    /\ NumServers \in failed
    /\ <<NumServers, "session">> \in Range(stack)
    /\ config[NumServers] # << >>
    /\ agentTools = ToolsOf(1)
    /\ agentTools # << >>

Commands == {"quit", "clear memory"}

\* No user turn of the list h is a control input.
NoCommandTurn(h) ==
    \A i \in 1..Len(h) : h[i][1] = "user" => lower(h[i][2]) \notin Commands

\* What holds of the control inputs in every state.
C17_State ==
    /\ pc = "invoking" =>
          /\ lower(query) \notin Commands
          /\ NoCommandTurn(PromptContext(input_data))
    /\ NoCommandTurn(chat_history)
    /\ NoCommandTurn(MainHistory)
    /\ cause = "quit" => pc \in {"closing", "done"}

\* What the steps of the control inputs do: the step that reads an input
\* and stays at the prompt is the memory reset; the step that sets the
\* cause to "quit" leaves the loop, and nothing is read or invoked after.
C17_Step ==
    /\ (pc = "prompt" /\ pc' = "prompt" /\ reads' # reads) =>
          /\ chat_history' = << >> /\ MainHistory' = << >>
          /\ calls' = calls
          /\ stack' = stack /\ closed' = closed
          /\ tools' = tools /\ agentTools' = agentTools /\ agent' = agent
    /\ (cause # "quit" /\ cause' = "quit") =>
          /\ pc = "prompt" /\ pc' = "closing"
          /\ calls' = calls /\ chat_history' = chat_history
          /\ MainHistory' = MainHistory
    /\ cause = "quit" =>
          /\ calls' = calls /\ reads' = reads
          /\ chat_history' = chat_history /\ MainHistory' = MainHistory

\* C17: an input that is 'quit' or 'clear memory' once trimmed and
\* lower-cased is never handed to the agent and never becomes a turn of
\* the history.  'clear memory' empties chat_history and the store's
\* history of session "main", leaves the open contexts and the catalog as
\* they are and returns to the prompt; 'quit' leaves the loop and no query
\* is processed after it.
C17_ControlInputs == [](C17_State) /\ [][C17_Step]_vars

\* A query was answered, the memory was cleared, and the run ended on quit:
\* both histories are empty and the agent was invoked once.
C17_Witness ==
    /\ pc = "done"
    /\ cause = "quit"
    /\ calls = 1
    /\ reads = 3
    /\ chat_history = << >>
    /\ histories[MainSession] # NoObj
    /\ msgsOf[histories[MainSession]] # 1
    /\ MainHistory = << >>

====
